---- MODULE Spec2Model ----
(***************************************************************************)
(* Model of the fatigue-metric core of nhl_schedule_pressure_card.py:      *)
(* fetch_schedules_for_range, compute_team_loads (with its nested          *)
(* functions) and build_loads_for_date.                                    *)
(*                                                                         *)
(* Representation                                                          *)
(*   dt.date            a day number (0 is 2026-01-01)                     *)
(*   ISO date string    <<year, month, day>>; the zero padding of the      *)
(*                      string makes its ordering the ordering of tuples   *)
(*   Optional value     None is <<>>, a present value x is <<x>>           *)
(*   dict               a function; d.get(k, dflt) tests DOMAIN d          *)
(*   list               a sequence                                         *)
(*   team object        [abbrev, triCode]; "" stands for an absent or      *)
(*                      empty field                                        *)
(*   kilometres         naturals (kilometres rounded down)                 *)
(***************************************************************************)
EXTENDS Integers, Sequences, FiniteSets, TLC

VARIABLES pc, day_games, schedules_by_date, arenas_latlon, loads,
          start_date, cur, out, source, query

\* pc                 where the program is
\* day_games          today's games (games_today in build_loads_for_date)
\* schedules_by_date  the schedule index handed to compute_team_loads
\* arenas_latlon      the venue lookup, or None
\* loads              None, or the mapping compute_team_loads returned
\* start_date, cur, out   fetch_schedules_for_range: its first argument
\*                    (the second is target_date), its loop date, its dict
\* source             what the schedule source answered for each date
\*                    fetched by fetch_schedules_for_range
\* query              None, or the last call of count_games_for_team
vars == <<pc, day_games, schedules_by_date, arenas_latlon, loads,
          start_date, cur, out, source, query>>

----------------------------------------------------------------------------
(* Optional values *)

None == <<>>

Some(x) == <<x>>

----------------------------------------------------------------------------
(* dt.date <-> ISO string, for the first quarter of 2026 *)

isoformat(d) ==
  IF d < 31 THEN <<2026, 1, d + 1>>
  ELSE IF d < 59 THEN <<2026, 2, d - 30>>
  ELSE <<2026, 3, d - 58>>

fromisoformat(ds) ==
  CASE ds[2] = 1 -> ds[3] - 1
    [] ds[2] = 2 -> 30 + ds[3]
    [] OTHER     -> 58 + ds[3]

\* str < str on ISO date strings: lexicographic
IsoLess(a, b) ==
  \/ a[1] < b[1]
  \/ a[1] = b[1] /\ a[2] < b[2]
  \/ a[1] = b[1] /\ a[2] = b[2] /\ a[3] < b[3]

\* sorted(schedules_by_date.keys())
RECURSIVE SortedKeys(_)
SortedKeys(S) ==
  IF S = {} THEN <<>>
  ELSE LET m == CHOOSE x \in S : \A y \in S \ {x} : IsoLess(x, y)
       IN <<m>> \o SortedKeys(S \ {m})

\* the date the card is made for: 2026-02-03
target_date == fromisoformat(<<2026, 2, 3>>)

----------------------------------------------------------------------------
(* Team identifiers *)

\* str.upper on the identifiers in use
Upper(s) ==
  CASE s = "aaa" -> "AAA"
    [] s = "bbb" -> "BBB"
    [] s = "ccc" -> "CCC"
    [] OTHER     -> s

\* shortName and teamAbbrev are absent from every team object drawn here
_team_abbrev(team_obj) ==
  IF team_obj.abbrev # "" THEN Upper(team_obj.abbrev)
  ELSE IF team_obj.triCode # "" THEN Upper(team_obj.triCode)
  ELSE "UNK"

game_teams(gg) == <<_team_abbrev(gg.awayTeam), _team_abbrev(gg.homeTeam)>>

----------------------------------------------------------------------------
(* Great-circle distance *)

Abs(x) == IF x < 0 THEN -x ELSE x

\* The venues drawn here lie on the equator (lat1 = lat2 = 0), where
\* a = sin^2(dlambda/2) and c is the longitude difference folded into
\* [0, 180] degrees. R * c in whole kilometres, pi taken as 3.14.
\* Coordinates are numbers, so the None guard (NaN) never fires.
haversine_km(lat1, lon1, lat2, lon2) ==
  LET dl  == Abs(lon2 - lon1) % 360
      arc == IF dl > 180 THEN 360 - dl ELSE dl
  IN (6371 * 314 * arc) \div 18000

----------------------------------------------------------------------------
(* compute_team_loads and its nested functions. They read the arguments    *)
(* day_games, schedules_by_date, target_date, arenas_latlon.               *)

\* schedules_by_date.get(ds, [])
GetGames(ds) ==
  IF ds \in DOMAIN schedules_by_date THEN schedules_by_date[ds] ELSE <<>>

\* the inner for loop: the games of the list in which team plays
TeamGamesIn(team, games) ==
  SelectSeq(games, LAMBDA gg : team = game_teams(gg)[1] \/ team = game_teams(gg)[2])

\* the while loop, from date c on, with n games counted so far
RECURSIVE CountFrom(_, _, _, _)
CountFrom(team, c, end, n) ==
  IF c <= end
  THEN CountFrom(team, c + 1, end, n + Len(TeamGamesIn(team, GetGames(isoformat(c)))))
  ELSE n

\* return n indented into the while loop: the first date's games only
count_games_first_date_only(team, start, end) ==
  IF start <= end THEN Len(TeamGamesIn(team, GetGames(isoformat(start)))) ELSE 0

\* the range's last date left out (cur < end)
count_games_exclusive_end(team, start, end) == CountFrom(team, start, end - 1, 0)

count_games_for_team(team, start, end) == CountFrom(team, start, end, 0)

\* a default point for a home team without an entry
\* (arenas_latlon.get(home, (0.0, 0.0)))
venue_latlon_default_origin(gg) ==
  IF arenas_latlon = None \/ DOMAIN arenas_latlon[1] = {} THEN None
  ELSE LET home == game_teams(gg)[2]
       IN IF home \in DOMAIN arenas_latlon[1] THEN Some(arenas_latlon[1][home])
          ELSE Some(<<0, 0>>)

\* arenas_latlon.get(home), None without a lookup or with an empty one
venue_latlon_for_game(gg) ==
  IF arenas_latlon = None \/ DOMAIN arenas_latlon[1] = {} THEN None
  ELSE LET home == game_teams(gg)[2]
       IN IF home \in DOMAIN arenas_latlon[1] THEN Some(arenas_latlon[1][home]) ELSE None

\* the walk without the upper end of the window (start_day <= dcur only)
RECURSIVE CollectWindow_no_upper(_, _)
CollectWindow_no_upper(team, keys) ==
  IF keys = <<>> THEN <<>>
  ELSE LET ds   == Head(keys)
           dcur == fromisoformat(ds)
           here == IF target_date - 6 <= dcur THEN TeamGamesIn(team, GetGames(ds)) ELSE <<>>
       IN [i \in 1..Len(here) |-> <<dcur, here[i]>>]
          \o CollectWindow_no_upper(team, Tail(keys))

\* the (date, game) pairs appended while walking the sorted keys
RECURSIVE CollectWindow(_, _)
CollectWindow(team, keys) ==
  IF keys = <<>> THEN <<>>
  ELSE LET ds        == Head(keys)
           dcur      == fromisoformat(ds)
           start_day == target_date - 6
           here      == IF start_day <= dcur /\ dcur <= target_date
                        THEN TeamGamesIn(team, GetGames(ds))
                        ELSE <<>>
       IN [i \in 1..Len(here) |-> <<dcur, here[i]>>] \o CollectWindow(team, Tail(keys))

\* list.sort(key=lambda x: x[0]): a stable sort on the date
RECURSIVE InsertByDate(_, _)
InsertByDate(sorted, x) ==
  IF sorted = <<>> THEN <<x>>
  ELSE IF sorted[Len(sorted)][1] <= x[1] THEN Append(sorted, x)
  ELSE Append(InsertByDate(SubSeq(sorted, 1, Len(sorted) - 1), x), sorted[Len(sorted)])

RECURSIVE SortByDate(_)
SortByDate(s) ==
  IF s = <<>> THEN <<>>
  ELSE InsertByDate(SortByDate(SubSeq(s, 1, Len(s) - 1)), s[Len(s)])

games_window(team) == CollectWindow(team, SortedKeys(DOMAIN schedules_by_date))

\* the venues list: the resolved points of the games, in their order
RECURSIVE Venues(_)
Venues(gw) ==
  IF gw = <<>> THEN <<>>
  ELSE LET ll == venue_latlon_for_game(Head(gw)[2])
       IN (IF ll # None THEN <<ll[1]>> ELSE <<>>) \o Venues(Tail(gw))

\* every leg measured from the first venue instead of the previous one
RECURSIVE KmFromFirst(_, _)
KmFromFirst(venues, n) ==
  IF n < 2 THEN 0
  ELSE KmFromFirst(venues, n - 1)
       + haversine_km(venues[1][1], venues[1][2], venues[n][1], venues[n][2])

KmSum_from_first(venues) == KmFromFirst(venues, Len(venues))

\* the zip loop over consecutive venues
RECURSIVE KmSum(_)
KmSum(venues) ==
  IF Len(venues) < 2 THEN 0
  ELSE haversine_km(venues[1][1], venues[1][2], venues[2][1], venues[2][2])
       + KmSum(Tail(venues))

\* 0 km in place of None when there is no lookup
travel_km_zero_without_lookup(team) ==
  IF arenas_latlon = None \/ DOMAIN arenas_latlon[1] = {} THEN Some(0)
  ELSE LET gw == games_window(team)
       IN IF Len(gw) < 2 THEN None
          ELSE LET venues == Venues(SortByDate(gw))
               IN IF Len(venues) < 2 THEN None
                  ELSE Some(KmSum(venues))

travel_km_last_7_days(team) ==
  IF arenas_latlon = None \/ DOMAIN arenas_latlon[1] = {} THEN None
  ELSE LET gw == games_window(team)
       IN IF Len(gw) < 2 THEN None
          ELSE LET venues == Venues(SortByDate(gw))
               IN IF Len(venues) < 2 THEN None
                  ELSE Some(KmSum(venues))

\* the away teams left out
teams_today_home_only ==
  {game_teams(day_games[i])[2] : i \in 1..Len(day_games)}

\* teams_today: the away and home identifiers of day_games
teams_today ==
  UNION { {game_teams(day_games[i])[1], game_teams(day_games[i])[2]} :
          i \in 1..Len(day_games) }

\* yesterday's window running on to the target date
TeamLoad_b2b_through_today(t) ==
  [ team      |-> t,
    b2b       |-> count_games_for_team(t, target_date - 1, target_date) > 0,
    g3in4     |-> count_games_for_team(t, target_date - 3, target_date),
    g4in6     |-> count_games_for_team(t, target_date - 5, target_date),
    travel_km |-> travel_km_last_7_days(t) ]

\* w3_start and w6_start swapped
TeamLoad_windows_swapped(t) ==
  [ team      |-> t,
    b2b       |-> count_games_for_team(t, target_date - 1, target_date - 1) > 0,
    g3in4     |-> count_games_for_team(t, target_date - 5, target_date),
    g4in6     |-> count_games_for_team(t, target_date - 3, target_date),
    travel_km |-> travel_km_last_7_days(t) ]

TeamLoad(t) ==
  [ team      |-> t,
    b2b       |-> count_games_for_team(t, target_date - 1, target_date - 1) > 0,
    g3in4     |-> count_games_for_team(t, target_date - 3, target_date),
    g4in6     |-> count_games_for_team(t, target_date - 5, target_date),
    travel_km |-> travel_km_last_7_days(t) ]

\* the returned dict
ComputedLoads == [t \in teams_today |-> TeamLoad(t)]

----------------------------------------------------------------------------
(* The inputs drawn *)

\* at most this many dates of a drawn schedule index hold games
MaxBusy == 3

TeamObj(abbrev, triCode) == [abbrev |-> abbrev, triCode |-> triCode]

Game(away, home) == [awayTeam |-> away, homeTeam |-> home]

TA == TeamObj("AAA", "")
TB == TeamObj("bbb", "")
TC == TeamObj("", "CCC")
TX == TeamObj("", "")

\* the game lists a date can hold; the last one is a scheduling anomaly,
\* two games of one team on one date
DayLists ==
  { <<Game(TA, TB)>>,
    <<Game(TB, TA)>>,
    <<Game(TA, TC)>>,
    <<Game(TC, TA), Game(TA, TB)>> }

\* the dates an index can have a key for: one day before the 7-day window
\* to one day after the target date
Dates == (target_date - 7)..(target_date + 1)

\* the dates that are keys also when they hold no games; any other date
\* without games has no key
EmptyKeyDates == {target_date - 7, target_date - 4, target_date, target_date + 1}

\* the index holding the game lists f, a function on the dates with games
Index(f) ==
  [ds \in {isoformat(d) : d \in EmptyKeyDates \cup DOMAIN f} |->
     IF fromisoformat(ds) \in DOMAIN f THEN f[fromisoformat(ds)] ELSE <<>>]

\* the sets of dates that can hold games
BusySets == {b \in SUBSET Dates : Cardinality(b) <= MaxBusy}

\* today's games: none, or two games, one with a team object that names
\* no team and one with an identifier in lower case
DayGamesSet ==
  { <<>>,
    <<Game(TX, TC), Game(TB, TA)>> }

\* the venue lookup: absent, empty, or without an entry for CCC
ArenasSet ==
  { None,
    Some(<<>>),
    Some([t \in {"AAA", "BBB"} |-> IF t = "AAA" THEN <<0, -79>> ELSE <<0, -118>>]) }

----------------------------------------------------------------------------
(* compute_team_loads called on drawn arguments *)

Init ==
  /\ pc = "call"
  /\ \E busy \in BusySets : \E f \in [busy -> DayLists] : schedules_by_date = Index(f)
  /\ day_games \in DayGamesSet
  /\ arenas_latlon \in ArenasSet
  /\ loads = None
  /\ start_date = target_date
  /\ cur = target_date
  /\ out = <<>>
  /\ source = <<>>
  /\ query = None

compute_team_loads ==
  /\ pc = "call"
  /\ loads' = Some(ComputedLoads)
  /\ pc' = "returned"
  /\ UNCHANGED <<day_games, schedules_by_date, arenas_latlon,
                 start_date, cur, out, source, query>>

Next == compute_team_loads

Spec == Init /\ [][Next]_vars

----------------------------------------------------------------------------
(* count_games_for_team called on drawn ranges, also malformed ones *)

\* the dates that can hold games in the indexes queried
QueryBusySets == {b \in SUBSET ((target_date - 4)..target_date) : Cardinality(b) <= MaxBusy}

\* the dates a queried range starts and ends on
QueryDates == (target_date - 3)..target_date

InitQuery ==
  /\ pc = "query"
  /\ \E busy \in QueryBusySets : \E f \in [busy -> DayLists] : schedules_by_date = Index(f)
  /\ day_games = <<>>
  /\ arenas_latlon = None
  /\ loads = None
  /\ start_date = target_date
  /\ cur = target_date
  /\ out = <<>>
  /\ source = <<>>
  /\ query = None

\* the function has no raise statement and no operation that can raise:
\* every call returns its counter
count_query ==
  /\ pc = "query"
  /\ \E team \in {"AAA", "BBB", "CCC", "UNK"} : \E start \in QueryDates : \E end \in QueryDates :
       query' = Some([ team    |-> team,
                       start   |-> start,
                       end     |-> end,
                       outcome |-> "returned",
                       n       |-> count_games_for_team(team, start, end) ])
  /\ pc' = "queried"
  /\ UNCHANGED <<day_games, schedules_by_date, arenas_latlon, loads,
                 start_date, cur, out, source>>

NextQuery == count_query

SpecQuery == InitQuery /\ [][NextQuery]_vars

----------------------------------------------------------------------------
(* build_loads_for_date, with fetch_schedules_for_range step by step *)

\* history_days of the longest history drawn
HistoryDays == 5

\* what fetch_schedule can return for a date
FetchLists ==
  { <<>>,
    <<Game(TB, TA)>>,
    <<Game(TC, TA), Game(TA, TB)>> }

\* history_days: none, and the longest
HistoryChoices == {0, HistoryDays}

InitBuild ==
  /\ pc = "fetch_today"
  /\ day_games = <<>>
  /\ schedules_by_date = <<>>
  /\ arenas_latlon = None
  /\ loads = None
  /\ \E history_days \in HistoryChoices : start_date = target_date - history_days
  /\ cur = start_date
  /\ out = <<>>
  /\ source = <<>>
  /\ query = None

\* games_today = fetch_schedule(date_str), outside any try
fetch_today ==
  /\ pc = "fetch_today"
  /\ \/ /\ day_games' \in FetchLists \ {<<>>}
        /\ pc' = "fetch_range"
     \/ /\ day_games' = day_games
        /\ pc' = "raised"
  /\ UNCHANGED <<schedules_by_date, arenas_latlon, loads,
                 start_date, cur, out, source, query>>

\* out[ds] = value, for a dict
DictSet(d, k, v) == [x \in DOMAIN d \cup {k} |-> IF x = k THEN v ELSE d[x]]

\* the except branch recording nothing (pass in place of out[ds] = [])
fetch_range_step_skip_failed ==
  /\ pc = "fetch_range"
  /\ cur <= target_date
  /\ LET ds == isoformat(cur)
     IN \/ \E games \in FetchLists :
             /\ out' = DictSet(out, ds, games)
             /\ source' = DictSet(source, ds, [ok |-> TRUE, games |-> games])
        \/ /\ out' = out
           /\ source' = DictSet(source, ds, [ok |-> FALSE, games |-> <<>>])
  /\ cur' = cur + 1
  /\ UNCHANGED <<pc, day_games, schedules_by_date, arenas_latlon, loads,
                 start_date, query>>

\* one turn of the while loop of fetch_schedules_for_range
fetch_range_step ==
  /\ pc = "fetch_range"
  /\ cur <= target_date
  /\ LET ds == isoformat(cur)
     IN \/ \E games \in FetchLists :
             /\ out' = DictSet(out, ds, games)
             /\ source' = DictSet(source, ds, [ok |-> TRUE, games |-> games])
        \/ /\ out' = DictSet(out, ds, <<>>)
           /\ source' = DictSet(source, ds, [ok |-> FALSE, games |-> <<>>])
  /\ cur' = cur + 1
  /\ UNCHANGED <<pc, day_games, schedules_by_date, arenas_latlon, loads,
                 start_date, query>>

\* the loop ends; schedules = the returned dict
fetch_range_return ==
  /\ pc = "fetch_range"
  /\ ~(cur <= target_date)
  /\ schedules_by_date' = out
  /\ pc' = "load_arenas"
  /\ UNCHANGED <<day_games, arenas_latlon, loads, start_date, cur, out, source, query>>

\* arenas_latlon stays None without a readable file
load_arenas ==
  /\ pc = "load_arenas"
  /\ arenas_latlon' \in {None, Some([t \in {"AAA", "BBB"} |->
                                      IF t = "AAA" THEN <<0, -79>> ELSE <<0, -118>>])}
  /\ pc' = "call"
  /\ UNCHANGED <<day_games, schedules_by_date, loads, start_date, cur, out, source, query>>

NextBuild ==
  \/ fetch_today
  \/ fetch_range_step
  \/ fetch_range_return
  \/ load_arenas
  \/ compute_team_loads

\* the program is sequential: inside fetch_schedules_for_range it takes the
\* next turn of the loop, or leaves the loop, as long as it can
SpecBuild ==
  /\ InitBuild
  /\ [][NextBuild]_vars
  /\ WF_vars(fetch_range_step)
  /\ WF_vars(fetch_range_return)

----------------------------------------------------------------------------
(* What the claims speak of, stated on the arguments without the code's    *)
(* operators for counting and collecting.                                  *)

Returned == pc = "returned" /\ loads # None

\* away or home identifier of a game record is T
Plays(T, g) == _team_abbrev(g.awayTeam) = T \/ _team_abbrev(g.homeTeam) = T

\* the game records of index idx on date d: <<d, position in the list>>
RecordsOn(idx, d) ==
  IF isoformat(d) \in DOMAIN idx
  THEN {<<d, i>> : i \in 1..Len(idx[isoformat(d)])}
  ELSE {}

\* the records of T on the dates from..to
RecordsOf(idx, T, from, to) ==
  {r \in UNION {RecordsOn(idx, d) : d \in from..to} : Plays(T, idx[isoformat(r[1])][r[2]])}

\* the resolved venue points of T's games of the dates from..to, by
\* ascending date (and list position within a date)
RECURSIVE PointsByDate(_, _, _, _)
PointsByDate(idx, T, from, to) ==
  IF from > to THEN <<>>
  ELSE LET games  == IF isoformat(from) \in DOMAIN idx THEN idx[isoformat(from)] ELSE <<>>
           mine   == SelectSeq(games, LAMBDA g : Plays(T, g))
           known  == SelectSeq(mine,
                       LAMBDA g : _team_abbrev(g.homeTeam) \in DOMAIN arenas_latlon[1])
       IN [i \in 1..Len(known) |-> arenas_latlon[1][_team_abbrev(known[i].homeTeam)]]
          \o PointsByDate(idx, T, from + 1, to)

Distance(p, q) == haversine_km(p[1], p[2], q[1], q[2])

\* the distances between consecutive points, summed from the last pair down
RECURSIVE LegSum(_, _)
LegSum(points, n) ==
  IF n < 2 THEN 0 ELSE LegSum(points, n - 1) + Distance(points[n - 1], points[n])

HasLookup == arenas_latlon # None /\ DOMAIN arenas_latlon[1] # {}

C2_WindowCounts ==
  Returned =>
    \A T \in DOMAIN loads[1] :
      /\ loads[1][T].g3in4 =
           Cardinality(RecordsOf(schedules_by_date, T, target_date - 3, target_date))
      /\ loads[1][T].g4in6 =
           Cardinality(RecordsOf(schedules_by_date, T, target_date - 5, target_date))

\* counts above 3 and above 4, with a date of the window that is no key
C2_Witness ==
  /\ Returned
  /\ \E d \in (target_date - 3)..target_date : isoformat(d) \notin DOMAIN schedules_by_date
  /\ \E T \in DOMAIN loads[1] : loads[1][T].g3in4 > 3 /\ loads[1][T].g4in6 > 4

\* C3: b2b is true exactly when the index holds a game of the team on
\* target-1.
C3_BackToBack ==
  Returned =>
    \A T \in DOMAIN loads[1] :
      loads[1][T].b2b <=>
        RecordsOf(schedules_by_date, T, target_date - 1, target_date - 1) # {}

\* one team with b2b set, and one team playing on target and on target-2
\* but not on target-1 with b2b not set
C3_Witness ==
  /\ Returned
  /\ \E T \in DOMAIN loads[1] : loads[1][T].b2b
  /\ \E T \in DOMAIN loads[1] :
       /\ ~loads[1][T].b2b
       /\ RecordsOf(schedules_by_date, T, target_date, target_date) # {}
       /\ RecordsOf(schedules_by_date, T, target_date - 2, target_date - 2) # {}

\* C4: the keys of the returned mapping are the away and home identifiers
\* of today's games, and every key maps to a TeamLoad with all five fields
\* whose team field is the key.
C4_CompleteLoads ==
  Returned =>
    /\ DOMAIN loads[1] =
         {_team_abbrev(day_games[i].awayTeam) : i \in 1..Len(day_games)}
         \cup {_team_abbrev(day_games[i].homeTeam) : i \in 1..Len(day_games)}
    /\ \A k \in DOMAIN loads[1] :
         /\ DOMAIN loads[1][k] = {"team", "b2b", "g3in4", "g4in6", "travel_km"}
         /\ loads[1][k].team = k
         /\ loads[1][k].b2b \in BOOLEAN
         /\ loads[1][k].g3in4 \in Nat
         /\ loads[1][k].g4in6 \in Nat
         /\ loads[1][k].travel_km = None \/ loads[1][k].travel_km[1] \in Nat

\* four teams, one of them from a team object that names no team, over an
\* index without games, with dates that are no keys, and no lookup
C4_Witness ==
  /\ Returned
  /\ DOMAIN loads[1] = {"AAA", "BBB", "CCC", "UNK"}
  /\ \A ds \in DOMAIN schedules_by_date : schedules_by_date[ds] = <<>>
  /\ isoformat(target_date - 1) \notin DOMAIN schedules_by_date
  /\ arenas_latlon = None

\* C5: without a venue lookup travel_km is None for every team, and b2b,
\* g3in4 and g4in6 are what the index gives.
C5_NoLookup ==
  (Returned /\ arenas_latlon = None) =>
    \A T \in DOMAIN loads[1] :
      /\ loads[1][T].travel_km = None
      /\ loads[1][T].b2b =
           (\E r \in RecordsOn(schedules_by_date, target_date - 1) :
              Plays(T, schedules_by_date[isoformat(r[1])][r[2]]))
      /\ loads[1][T].g3in4 =
           Cardinality(UNION {RecordsOf(schedules_by_date, T, d, d) :
                              d \in (target_date - 3)..target_date})
      /\ loads[1][T].g4in6 =
           Cardinality(UNION {RecordsOf(schedules_by_date, T, d, d) :
                              d \in (target_date - 5)..target_date})

\* no lookup, and a team with three games in the last 7 days, one of them
\* yesterday
C5_Witness ==
  /\ Returned /\ arenas_latlon = None
  /\ \E T \in DOMAIN loads[1] :
       /\ Cardinality(RecordsOf(schedules_by_date, T, target_date - 6, target_date)) >= 3
       /\ loads[1][T].b2b
       /\ loads[1][T].g4in6 >= 3
       /\ loads[1][T].travel_km = None

\* the identifiers the drawn team objects name
AllTeams == {"AAA", "BBB", "CCC", "UNK"}

\* C8: for every team and every index, the count of the team's games over
\* [target-6, target] got by walking the dates equals the length of the
\* game list travel_km_last_7_days collects by walking the index keys.
C8_CountEqualsWindowLength ==
  Returned => \A T \in AllTeams :
    count_games_for_team(T, target_date - 6, target_date) = Len(games_window(T))

\* a returned call on an index with a date of the window that is no key
\* and with games of the team before the window, after it and twice in it
C8_Witness ==
  /\ Returned
  /\ \E d \in (target_date - 6)..target_date : isoformat(d) \notin DOMAIN schedules_by_date
  /\ \E T \in DOMAIN loads[1] :
       /\ RecordsOf(schedules_by_date, T, target_date - 7, target_date - 7) # {}
       /\ RecordsOf(schedules_by_date, T, target_date + 1, target_date + 1) # {}
       /\ Len(games_window(T)) >= 2

\* fetch_schedules_for_range has returned
RangeReturned == pc \in {"load_arenas", "call", "returned"}

\* the index returned for [start_date, target_date]
C6_Index ==
  RangeReturned =>
    /\ DOMAIN schedules_by_date = {isoformat(d) : d \in start_date..target_date}
    /\ DOMAIN source = DOMAIN schedules_by_date
    /\ \A ds \in DOMAIN schedules_by_date :
         schedules_by_date[ds] = IF source[ds].ok THEN source[ds].games ELSE <<>>

\* C6: fetch_schedules_for_range(start, end) terminates, and the index it
\* returns has exactly the dates of [start, end] as keys, the empty list
\* for a date whose fetch failed and the fetched list for every other date.
C6_FetchRange ==
  /\ []C6_Index
  /\ (pc = "fetch_range") ~> RangeReturned

\* a range of several dates returned, with a failed date before a date
\* that was fetched with games and a failed date after it
C6_Witness ==
  /\ RangeReturned
  /\ start_date < target_date
  /\ \E a \in DOMAIN source : \E b \in DOMAIN source : \E c \in DOMAIN source :
       /\ IsoLess(a, b) /\ IsoLess(b, c)
       /\ ~source[a].ok /\ source[b].ok /\ ~source[c].ok
       /\ schedules_by_date[b] # <<>>

\* C7: a games-played query over a range with start > end ends in an
\* error and returns no count.
C7_MalformedRangeFails ==
  (query # None /\ query[1].start > query[1].end) => query[1].outcome = "error"

\* C9: widening a range [A, B] with A <= B to [A-1, B] never lowers the
\* count of a team's games.
C9_Monotonic ==
  (query # None /\ query[1].start <= query[1].end) =>
    count_games_for_team(query[1].team, query[1].start - 1, query[1].end) >= query[1].n

\* a query that counted games over a range of several dates, with a game
\* of the team on the date before the range and a date of the range that
\* is no key
C9_Witness ==
  /\ query # None
  /\ query[1].start < query[1].end
  /\ query[1].n >= 2
  /\ count_games_for_team(query[1].team, query[1].start - 1, query[1].end) > query[1].n
  /\ \E d \in query[1].start..query[1].end : isoformat(d) \notin DOMAIN schedules_by_date

\* whenever the schedule source answered fetch_schedules_for_range for the
\* target date, it answered with the games build_loads_for_date had
\* fetched for today
TargetAnswerIsToday ==
  /\ isoformat(target_date) \in DOMAIN source
  /\ source[isoformat(target_date)].ok =>
       source[isoformat(target_date)].games = day_games

\* C10: for every team in the mapping build_loads_for_date returns, g3in4
\* and g4in6 include today's game and are at least 1, whatever fetches
\* of fetch_schedules_for_range failed.
C10_CountsIncludeToday ==
  (Returned /\ TargetAnswerIsToday) =>
    \A T \in DOMAIN loads[1] : loads[1][T].g3in4 >= 1 /\ loads[1][T].g4in6 >= 1

\* the home identifier of the game record r = <<date, position>>
HomeOf(r) == _team_abbrev(schedules_by_date[isoformat(r[1])][r[2]].homeTeam)

AwayOf(r) == _team_abbrev(schedules_by_date[isoformat(r[1])][r[2]].awayTeam)

\* record r comes before record q in date order
Earlier(r, q) == r[1] < q[1] \/ (r[1] = q[1] /\ r[2] < q[2])

\* C11: the venue point of a game is the lookup entry of its home team,
\* also when the team computed is the away team, and a game whose home
\* team has no entry gives no point: a team whose games of the last 7
\* days are, in date order, at venues A, unresolved, B has travel_km =
\* distance(A, B).
C11_UnresolvedSkipped ==
  (Returned /\ HasLookup) =>
    \A T \in DOMAIN loads[1] :
      LET recs == RecordsOf(schedules_by_date, T, target_date - 6, target_date)
      IN \A r1 \in recs : \A r2 \in recs : \A r3 \in recs :
           ( /\ recs = {r1, r2, r3}
             /\ Earlier(r1, r2) /\ Earlier(r2, r3)
             /\ HomeOf(r1) \in DOMAIN arenas_latlon[1]
             /\ HomeOf(r2) \notin DOMAIN arenas_latlon[1]
             /\ HomeOf(r3) \in DOMAIN arenas_latlon[1] )
           => loads[1][T].travel_km =
                Some(Distance(arenas_latlon[1][HomeOf(r1)], arenas_latlon[1][HomeOf(r3)]))

\* a team at home at A, then at an unresolved venue, then away at B, on
\* three dates, with a travel distance that is the one leg from A to B
C11_Witness ==
  /\ Returned /\ HasLookup
  /\ \E T \in DOMAIN loads[1] :
       LET recs == RecordsOf(schedules_by_date, T, target_date - 6, target_date)
       IN \E r1 \in recs : \E r2 \in recs : \E r3 \in recs :
            /\ recs = {r1, r2, r3}
            /\ r1[1] < r2[1] /\ r2[1] < r3[1]
            /\ HomeOf(r1) = T
            /\ HomeOf(r2) \notin DOMAIN arenas_latlon[1]
            /\ AwayOf(r3) = T /\ HomeOf(r3) \in DOMAIN arenas_latlon[1]
            /\ loads[1][T].travel_km # None
            /\ loads[1][T].travel_km[1] > 0
            /\ loads[1][T].travel_km[1] =
                 Distance(arenas_latlon[1][T], arenas_latlon[1][HomeOf(r3)])

\* C12: every returned TeamLoad is consistent: g3in4 <= g4in6, b2b implies
\* g3in4 >= 1, and a known travel_km implies at least 2 games of the team
\* on the dates [target-6, target].
C12_Consistent ==
  Returned =>
    \A T \in DOMAIN loads[1] :
      /\ loads[1][T].g3in4 <= loads[1][T].g4in6
      /\ loads[1][T].b2b => loads[1][T].g3in4 >= 1
      /\ loads[1][T].travel_km # None =>
           Cardinality(RecordsOf(schedules_by_date, T, target_date - 6, target_date)) >= 2

\* a team that played yesterday, with a game on target-4 or target-5 that
\* only g4in6 counts, and a known travel distance
C12_Witness ==
  /\ Returned
  /\ \E T \in DOMAIN loads[1] :
       /\ loads[1][T].b2b
       /\ loads[1][T].g3in4 >= 1
       /\ loads[1][T].g3in4 < loads[1][T].g4in6
       /\ loads[1][T].travel_km # None

====
